---- MODULE Spec2Model ----
(***************************************************************************)
(* Model of src/validate_reporting_hierarchy.py: the hierarchy validator   *)
(* validate_hierarchy and its helper _compute_type_chain.                  *)
(*                                                                         *)
(* Data representation                                                     *)
(*   - a text cell is a sequence of one-character strings, so that         *)
(*     str.strip() and sorted() are computed character by character;       *)
(*   - NaN (an empty CSV cell as read by _read_csv) and Python's None are  *)
(*     the one-element sequences <<"NaN">> and <<"None">>, which no text   *)
(*     cell can equal;                                                     *)
(*   - a DataFrame is [columns: set of names, rows: sequence of            *)
(*     functions name -> value]; row i+1 of the model is index i of the    *)
(*     code;                                                               *)
(*   - a Python dict is a sequence of <<key, value>> pairs in insertion    *)
(*     order; a Python set is a TLA+ set, and iterating over a set of      *)
(*     strings follows hashSeed, the order induced by the interpreter's    *)
(*     per-process string hash;                                            *)
(*   - an error message is [text, args]: the f-string's fixed text and the *)
(*     cells substituted into it; "; ".join(errs) is the list errs.        *)
(***************************************************************************)
EXTENDS Naturals, Sequences, FiniteSets, TLC

VARIABLES df_in, hashSeed, pc, out, chain_map, chain_cur, chain_ordered

vars == <<df_in, hashSeed, pc, out, chain_map, chain_cur, chain_ordered>>

\* The state of a run of _compute_type_chain taken step by step: its
\* argument, and the loop variables cur and ordered.
chainVars == <<chain_map, chain_cur, chain_ordered>>

----------------------------------------------------------------------------
(* Strings *)

NaN == <<"NaN">>

None == <<"None">>

EMPTY == <<>>

Ord ==
  (" " :> 32) @@ ("'" :> 39) @@ ("," :> 44) @@ ("-" :> 45) @@ ("0" :> 48) @@
  ("1" :> 49) @@ ("2" :> 50) @@ ("3" :> 51) @@ ("4" :> 52) @@ ("5" :> 53) @@
  ("6" :> 54) @@ ("7" :> 55) @@ ("8" :> 56) @@ ("9" :> 57) @@ (">" :> 62) @@
  ("T" :> 84) @@ ("W" :> 87) @@ ("X" :> 88) @@ ("Y" :> 89) @@ ("Z" :> 90) @@ ("a" :> 97) @@
  ("b" :> 98) @@ ("c" :> 99) @@ ("d" :> 100) @@ ("e" :> 101) @@
  ("f" :> 102) @@ ("g" :> 103) @@ ("h" :> 104) @@ ("i" :> 105) @@ ("l" :> 108) @@ ("n" :> 110) @@
  ("q" :> 113) @@ ("r" :> 114)

IsSpace(c) == c = " "

RECURSIVE LStrip(_)
LStrip(s) == IF s # <<>> /\ IsSpace(Head(s)) THEN LStrip(Tail(s)) ELSE s

RECURSIVE RStrip(_)
RStrip(s) ==
  IF s # <<>> /\ IsSpace(s[Len(s)]) THEN RStrip(SubSeq(s, 1, Len(s) - 1)) ELSE s

Strip(s) == RStrip(LStrip(s))

RECURSIVE StrLess(_, _)
StrLess(s, t) ==
  IF t = <<>> THEN FALSE
  ELSE IF s = <<>> THEN TRUE
  ELSE IF Head(s) = Head(t) THEN StrLess(Tail(s), Tail(t))
  ELSE Ord[Head(s)] < Ord[Head(t)]

RECURSIVE sorted(_)
sorted(S) ==
  IF S = {} THEN <<>>
  ELSE LET m == CHOOSE x \in S : \A y \in S : x = y \/ StrLess(x, y)
       IN  <<m>> \o sorted(S \ {m})

RECURSIVE Join(_, _)
Join(xs, sep) ==
  IF xs = <<>> THEN <<>>
  ELSE IF Len(xs) = 1 THEN xs[1]
  ELSE xs[1] \o sep \o Join(Tail(xs), sep)

CommaSpace == <<",", " ">>

Digit == <<"0", "1", "2", "3", "4", "5", "6", "7", "8", "9">>

RECURSIVE Str(_)
Str(n) == IF n < 10 THEN <<Digit[n + 1]>> ELSE Str(n \div 10) \o <<Digit[(n % 10) + 1]>>

Range(s) == {s[i] : i \in DOMAIN s}

Indices(n) == [i \in 1..n |-> i]

RECURSIVE Count(_, _)
Count(s, x) ==
  IF s = <<>> THEN 0 ELSE (IF Head(s) = x THEN 1 ELSE 0) + Count(Tail(s), x)

Msg(text, args) == [text |-> text, args |-> args]

----------------------------------------------------------------------------
(* Python dicts, in insertion order *)

DictHas(d, k) == \E i \in DOMAIN d : d[i][1] = k

DictGet(d, k) == d[CHOOSE i \in DOMAIN d : d[i][1] = k][2]

DictPut(d, k, v) ==
  IF DictHas(d, k)
  THEN [i \in DOMAIN d |-> IF d[i][1] = k THEN <<k, v>> ELSE d[i]]
  ELSE Append(d, <<k, v>>)

DictKeys(d) == [i \in DOMAIN d |-> d[i][1]]

DictValues(d) == [i \in DOMAIN d |-> d[i][2]]

DictAsFunction(d) == [k \in Range(DictKeys(d)) |-> DictGet(d, k)]

----------------------------------------------------------------------------
(* Module constants *)

REQUIRED_COLUMNS ==
  <<"Title", "Abbreviation", "Academic Unit Type", "Parent Academic Unit">>

ERR_COLS ==
  << "err_missing_title",
     "err_missing_abbreviation",
     "err_missing_academic_unit_type",
     "err_duplicate_abbreviation",
     "err_multi_parent_for_abbreviation",
     "err_parent_not_found",
     "err_inconsistent_parent_type_for_child_type",
     "err_multiple_child_types_share_parent_type",
     "err_top_level_count_not_one",
     "err_no_top_level",
     "err_top_row_wrong_type",
     "err_top_type_has_parent",
     "err_parent_type_mismatch",
     "err_ambiguous_parent_type_for_child_type" >>

DIAG_COLS == {"_Parent Exists", "_Parent Type (actual)", "_Expected Parent Type"}

----------------------------------------------------------------------------
(* DataFrame helpers *)

Column(df, col) == [i \in 1..Len(df.rows) |-> df.rows[i][col]]

\* df[col] = values: adds the column or overwrites it in place.
SetColumn(df, col, values) ==
  [columns |-> df.columns \cup {col},
   rows    |-> [i \in 1..Len(df.rows) |->
                  [c \in df.columns \cup {col} |->
                     IF c = col THEN values[i] ELSE df.rows[i][c]]]]

\* s.fillna("").astype(str).str.strip()
_normalize_str_series(s) ==
  [i \in DOMAIN s |-> Strip(IF s[i] = NaN THEN <<>> ELSE s[i])]

----------------------------------------------------------------------------
(* _compute_type_chain *)

\* Iteration over a Python set of strings: the order the process's string
\* hash gives them, here the order in which seed lists them.
SetIter(S, seed) == SelectSeq(seed, LAMBDA t : t \in S)

RECURSIVE Tally(_, _)
Tally(d, xs) ==
  IF xs = <<>> THEN d
  ELSE LET x == Head(xs)
       IN  Tally(DictPut(d, x, (IF DictHas(d, x) THEN DictGet(d, x) ELSE 0) + 1),
                 Tail(xs))

RECURSIVE SetDefaultAll(_, _)
SetDefaultAll(d, items) ==
  IF items = <<>> THEN d
  ELSE LET child  == Head(items)[1]
           parent == Head(items)[2]
       IN  SetDefaultAll(IF DictHas(d, parent) THEN d ELSE Append(d, <<parent, child>>),
                         Tail(items))

all_types(child_to_parent_type) ==
  Range(DictKeys(child_to_parent_type)) \cup Range(DictValues(child_to_parent_type))

\* Mutant of chain_roots: child_types - parent_types, the leaves.
chain_leaves(child_to_parent_type) ==
  sorted(Range(DictKeys(child_to_parent_type)) \ Range(DictValues(child_to_parent_type)))

chain_roots(child_to_parent_type) ==
  sorted(Range(DictValues(child_to_parent_type)) \ Range(DictKeys(child_to_parent_type)))

\* Mutant of RootErrors: only several roots are an error.
RootErrors_multiple_only(roots) ==
  IF Len(roots) > 1
  THEN << Msg("Type chain error: multiple candidate top types: {}.",
              <<Join(roots, CommaSpace)>>) >>
  ELSE <<>>

RootErrors(roots) ==
  IF Len(roots) # 1
  THEN IF Len(roots) = 0
       THEN << Msg("Type chain error: no unique top type (cycle or all types are children).",
                   <<>>) >>
       ELSE << Msg("Type chain error: multiple candidate top types: {}.",
                   <<Join(roots, CommaSpace)>>) >>
  ELSE <<>>

parent_counts(child_to_parent_type) == Tally(<<>>, DictValues(child_to_parent_type))

SameLevelErrors(child_to_parent_type) ==
  LET pc_        == parent_counts(child_to_parent_type)
      same_level == SelectSeq(DictKeys(pc_), LAMBDA pt : DictGet(pc_, pt) > 1)
      part(pt)   == pt \o <<" ", "-", ">", " ">> \o Str(DictGet(pc_, pt))
                       \o <<" ", "c", "h", "i", "l", "d", "r", "e", "n">>
  IN  IF same_level # <<>>
      THEN << Msg("Type chain error: multiple child types share the same parent type (more than one type at a level): {}",
                  <<Join([i \in DOMAIN same_level |-> part(same_level[i])], CommaSpace)>>) >>
      ELSE <<>>

RECURSIVE Walk(_, _, _)
Walk(cur, ordered, parent_to_child) ==
  IF cur = None \/ cur = EMPTY \/ cur \in Range(ordered) THEN ordered
  ELSE Walk(IF DictHas(parent_to_child, cur) THEN DictGet(parent_to_child, cur) ELSE None,
            Append(ordered, cur), parent_to_child)

\* Mutant of OrderedTypes: the leftovers are not appended.
OrderedTypes_walk_only(child_to_parent_type, seed) ==
  LET roots == chain_roots(child_to_parent_type)
  IN  IF roots # <<>>
      THEN Walk(roots[1], <<>>, SetDefaultAll(<<>>, child_to_parent_type))
      ELSE SetIter(all_types(child_to_parent_type), seed)

OrderedTypes(child_to_parent_type, seed) ==
  LET roots == chain_roots(child_to_parent_type)
  IN  IF roots # <<>>
      THEN LET parent_to_child == SetDefaultAll(<<>>, child_to_parent_type)
               walked          == Walk(roots[1], <<>>, parent_to_child)
               leftovers       == SelectSeq(SetIter(all_types(child_to_parent_type), seed),
                                            LAMBDA t : t \notin Range(walked))
           IN  walked \o leftovers
      ELSE SetIter(all_types(child_to_parent_type), seed)

_compute_type_chain(child_to_parent_type, seed) ==
  [ordered_types |-> OrderedTypes(child_to_parent_type, seed),
   chain_errors  |-> RootErrors(chain_roots(child_to_parent_type))
                       \o SameLevelErrors(child_to_parent_type)]

----------------------------------------------------------------------------
(* validate_hierarchy: error bookkeeping *)

NoErrors(n) ==
  [errors_per_row |-> [i \in 1..n |-> <<>>],
   err_flags      |-> [c \in Range(ERR_COLS) |-> [i \in 1..n |-> FALSE]]]

\* Mutant of _add_err: a row keeps its first message only.
_add_err_first_only(es, idx, key, msg) ==
  IF idx \in DOMAIN es.errors_per_row
  THEN [errors_per_row |-> IF es.errors_per_row[idx] = <<>>
                           THEN [es.errors_per_row EXCEPT ![idx] = Append(@, msg)]
                           ELSE es.errors_per_row,
        err_flags      |-> IF key \in DOMAIN es.err_flags
                           THEN [es.err_flags EXCEPT ![key][idx] = TRUE]
                           ELSE es.err_flags]
  ELSE es

_add_err(es, idx, key, msg) ==
  IF idx \in DOMAIN es.errors_per_row
  THEN [errors_per_row |-> [es.errors_per_row EXCEPT ![idx] = Append(@, msg)],
        err_flags      |-> IF key \in DOMAIN es.err_flags
                           THEN [es.err_flags EXCEPT ![key][idx] = TRUE]
                           ELSE es.err_flags]
  ELSE es

\* for idx in idxs: _add_err(idx, key, msgs[idx])
RECURSIVE AddErrs(_, _, _, _)
AddErrs(es, idxs, key, msgs) ==
  IF idxs = <<>> THEN es
  ELSE AddErrs(_add_err(es, Head(idxs), key, msgs[Head(idxs)]), Tail(idxs), key, msgs)

Where(df, P(_)) == SelectSeq(Indices(Len(df.rows)), P)

Each(df, msg) == [i \in 1..Len(df.rows) |-> msg]

----------------------------------------------------------------------------
(* validate_hierarchy: the stages, in the order of the source *)

\* The first required column the table lacks, or None.
MissingColumn(df) ==
  LET missing == SelectSeq(REQUIRED_COLUMNS, LAMBDA col : col \notin df.columns)
  IN  IF missing = <<>> THEN "" ELSE missing[1]

NormalizeColumn(df, col) == SetColumn(df, col, _normalize_str_series(Column(df, col)))

\* Mutant of NormalizedFrame: rows without abbreviation are dropped
\* (a dropna on the key column).
NormalizedFrame_dropna(df) ==
  LET kept == [columns |-> df.columns,
               rows    |-> SelectSeq(df.rows, LAMBDA r : r["Abbreviation"] # NaN)]
  IN  NormalizeColumn(
        NormalizeColumn(
          NormalizeColumn(
            NormalizeColumn(kept, "Title"),
            "Abbreviation"),
          "Academic Unit Type"),
        "Parent Academic Unit")

NormalizedFrame(df) ==
  NormalizeColumn(
    NormalizeColumn(
      NormalizeColumn(
        NormalizeColumn(df, "Title"),
        "Abbreviation"),
      "Academic Unit Type"),
    "Parent Academic Unit")

RequiredValueErrors(df, es) ==
  LET e1 == AddErrs(es, Where(df, LAMBDA i : df.rows[i]["Title"] = EMPTY),
                    "err_missing_title", Each(df, Msg("Missing Title", <<>>)))
      e2 == AddErrs(e1, Where(df, LAMBDA i : df.rows[i]["Abbreviation"] = EMPTY),
                    "err_missing_abbreviation", Each(df, Msg("Missing Abbreviation", <<>>)))
  IN  AddErrs(e2, Where(df, LAMBDA i : df.rows[i]["Academic Unit Type"] = EMPTY),
              "err_missing_academic_unit_type",
              Each(df, Msg("Missing Academic Unit Type", <<>>)))

\* Mutant of dup_mask: keep="first", the first occurrence is not marked.
dup_mask_keep_first(df) ==
  [i \in 1..Len(df.rows) |->
     /\ \E j \in 1..(i - 1) :
          df.rows[j]["Abbreviation"] = df.rows[i]["Abbreviation"]
     /\ df.rows[i]["Abbreviation"] # EMPTY]

\* df.duplicated("Abbreviation", keep=False) & (df["Abbreviation"] != "")
dup_mask(df) ==
  [i \in 1..Len(df.rows) |->
     /\ \E j \in 1..Len(df.rows) :
          j # i /\ df.rows[j]["Abbreviation"] = df.rows[i]["Abbreviation"]
     /\ df.rows[i]["Abbreviation"] # EMPTY]

DuplicateErrors(df, es) ==
  LET mask == dup_mask(df)
  IN  AddErrs(es, Where(df, LAMBDA i : mask[i]),
              "err_duplicate_abbreviation", Each(df, Msg("Duplicate Abbreviation", <<>>)))

RECURSIVE AbbrevToParentsFrom(_, _)
AbbrevToParentsFrom(d, rows) ==
  IF rows = <<>> THEN d
  ELSE LET abbr   == Head(rows)["Abbreviation"]
           parent == Head(rows)["Parent Academic Unit"]
       IN  AbbrevToParentsFrom(
             IF abbr # EMPTY
             THEN DictPut(d, abbr,
                          (IF DictHas(d, abbr) THEN DictGet(d, abbr) ELSE {}) \cup {parent})
             ELSE d,
             Tail(rows))

abbrev_to_parents(df) == AbbrevToParentsFrom(<<>>, df.rows)

\* Mutant of multi_parents: the empty parent counts as a parent.
multi_parents_with_empty(df) ==
  SelectSeq(abbrev_to_parents(df), LAMBDA item : Cardinality(item[2]) > 1)

multi_parents(df) ==
  SelectSeq(abbrev_to_parents(df), LAMBDA item : Cardinality(item[2] \ {EMPTY}) > 1)

RECURSIVE MultiParentErrorsFor(_, _, _)
MultiParentErrorsFor(df, items, es) ==
  IF items = <<>> THEN es
  ELSE LET a       == Head(items)[1]
           parents == Head(items)[2]
       IN  MultiParentErrorsFor(
             df, Tail(items),
             AddErrs(es, Where(df, LAMBDA i : df.rows[i]["Abbreviation"] = a),
                     "err_multi_parent_for_abbreviation",
                     Each(df, Msg("Abbreviation maps to multiple parents: {}",
                                  <<Join(sorted({p \in parents : p # EMPTY}), CommaSpace)>>))))

MultiParentErrors(df, es) == MultiParentErrorsFor(df, multi_parents(df), es)

\* Mutant of AbbrevToTypeFrom: setdefault, the first occurrence is kept.
RECURSIVE AbbrevToTypeFrom_setdefault(_, _)
AbbrevToTypeFrom_setdefault(d, rows) ==
  IF rows = <<>> THEN d
  ELSE LET a == Head(rows)["Abbreviation"]
           t == Head(rows)["Academic Unit Type"]
       IN  AbbrevToTypeFrom_setdefault(
             IF a # EMPTY /\ ~DictHas(d, a) THEN Append(d, <<a, t>>) ELSE d, Tail(rows))

RECURSIVE AbbrevToTypeFrom(_, _)
AbbrevToTypeFrom(d, rows) ==
  IF rows = <<>> THEN d
  ELSE LET a == Head(rows)["Abbreviation"]
           t == Head(rows)["Academic Unit Type"]
       IN  AbbrevToTypeFrom(IF a # EMPTY THEN DictPut(d, a, t) ELSE d, Tail(rows))

abbrev_to_type(df) == AbbrevToTypeFrom(<<>>, df.rows)

\* Mutant of parent_exists: a non-empty parent is taken to exist.
parent_exists_nonempty(df) ==
  [i \in 1..Len(df.rows) |-> df.rows[i]["Parent Academic Unit"] # EMPTY]

parent_exists(df) ==
  LET a2t == abbrev_to_type(df)
  IN  [i \in 1..Len(df.rows) |->
         LET parent_abbr == df.rows[i]["Parent Academic Unit"]
         IN  IF parent_abbr = EMPTY THEN FALSE ELSE DictHas(a2t, parent_abbr)]

\* abbrev_to_type.get(parent_abbr), None for a row without parent
parent_type_for_row(df) ==
  LET a2t == abbrev_to_type(df)
  IN  [i \in 1..Len(df.rows) |->
         LET parent_abbr == df.rows[i]["Parent Academic Unit"]
         IN  IF parent_abbr = EMPTY THEN None
             ELSE IF DictHas(a2t, parent_abbr) THEN DictGet(a2t, parent_abbr)
             ELSE None]

ParentNotFoundErrors(df, es) ==
  LET exists == parent_exists(df)
  IN  AddErrs(es,
              Where(df, LAMBDA i : df.rows[i]["Parent Academic Unit"] # EMPTY /\ ~exists[i]),
              "err_parent_not_found",
              Each(df, Msg("Parent Academic Unit not found in file", <<>>)))

\* Python truthiness of a `_Parent Type (actual)` value.
Truthy(p_type) == p_type # None /\ p_type # EMPTY

RECURSIVE TypeToParentCountsFrom(_, _)
TypeToParentCountsFrom(d, rows) ==
  IF rows = <<>> THEN d
  ELSE LET child_type == Head(rows)["Academic Unit Type"]
           p_exists   == Head(rows)["_Parent Exists"]
           p_type     == Head(rows)["_Parent Type (actual)"]
           counts     == IF DictHas(d, child_type) THEN DictGet(d, child_type) ELSE <<>>
       IN  TypeToParentCountsFrom(
             IF p_exists /\ Truthy(p_type)
             THEN DictPut(d, child_type, Tally(counts, <<p_type>>))
             ELSE d,
             Tail(rows))

\* df carries the columns _Parent Exists and _Parent Type (actual).
type_to_parent_counts(df) == TypeToParentCountsFrom(<<>>, df.rows)

RECURSIVE Max(_)
Max(xs) ==
  IF Len(xs) = 1 THEN xs[1]
  ELSE LET m == Max(Tail(xs)) IN IF xs[1] > m THEN xs[1] ELSE m

\* Mutant of modes_of: only the first parent type that reaches the highest
\* count is a mode.
modes_of_first_seen(counts) ==
  LET max_count == Max(DictValues(counts))
  IN  SubSeq(SelectSeq(DictKeys(counts), LAMBDA pt : DictGet(counts, pt) = max_count), 1, 1)

modes_of(counts) ==
  LET max_count == Max(DictValues(counts))
  IN  SelectSeq(DictKeys(counts), LAMBDA pt : DictGet(counts, pt) = max_count)

\* Mutant of child_to_parent_type_unique: on a tie the first mode is taken.
child_to_parent_type_first_mode(t2pc) ==
  LET decided == SelectSeq(t2pc, LAMBDA item : item[2] # <<>>)
  IN  [i \in DOMAIN decided |-> <<decided[i][1], modes_of(decided[i][2])[1]>>]

child_to_parent_type_unique(t2pc) ==
  LET decided == SelectSeq(t2pc, LAMBDA item : item[2] # <<>> /\ Len(modes_of(item[2])) = 1)
  IN  [i \in DOMAIN decided |-> <<decided[i][1], modes_of(decided[i][2])[1]>>]

\* Mutant of ambiguous_child_types: no child type is recorded as ambiguous.
ambiguous_child_types_none(t2pc) == {}

ambiguous_child_types(t2pc) ==
  {item[1] : item \in {it \in Range(t2pc) : it[2] # <<>> /\ Len(modes_of(it[2])) # 1}}

RECURSIVE ParentToChildrenFrom(_, _)
ParentToChildrenFrom(d, items) ==
  IF items = <<>> THEN d
  ELSE LET c == Head(items)[1]
           p == Head(items)[2]
       IN  ParentToChildrenFrom(
             DictPut(d, p, Append(IF DictHas(d, p) THEN DictGet(d, p) ELSE <<>>, c)),
             Tail(items))

parent_to_children(c2p) == ParentToChildrenFrom(<<>>, c2p)

\* Mutant of SharedParentErrorsForChildren: only the rows that took part in
\* the tally (those whose parent exists) are flagged.
RECURSIVE SharedParentErrorsForChildren_resolved(_, _, _, _)
SharedParentErrorsForChildren_resolved(df, p, children, es) ==
  IF children = <<>> THEN es
  ELSE SharedParentErrorsForChildren_resolved(
         df, p, Tail(children),
         AddErrs(es, Where(df, LAMBDA i : df.rows[i]["Academic Unit Type"] = Head(children)
                                 /\ df.rows[i]["_Parent Exists"]),
                 "err_multiple_child_types_share_parent_type",
                 Each(df, Msg("Multiple child types share parent type '{}' (violates single type per level)",
                              <<p>>))))

RECURSIVE SharedParentErrorsForChildren(_, _, _, _)
SharedParentErrorsForChildren(df, p, children, es) ==
  IF children = <<>> THEN es
  ELSE SharedParentErrorsForChildren(
         df, p, Tail(children),
         AddErrs(es, Where(df, LAMBDA i : df.rows[i]["Academic Unit Type"] = Head(children)),
                 "err_multiple_child_types_share_parent_type",
                 Each(df, Msg("Multiple child types share parent type '{}' (violates single type per level)",
                              <<p>>))))

RECURSIVE SharedParentErrorsFor(_, _, _)
SharedParentErrorsFor(df, items, es) ==
  IF items = <<>> THEN es
  ELSE LET p        == Head(items)[1]
           children == Head(items)[2]
       IN  SharedParentErrorsFor(
             df, Tail(items),
             IF Len(children) > 1
             THEN SharedParentErrorsForChildren(df, p, children, es)
             ELSE es)

SharedParentErrors(df, c2p, es) == SharedParentErrorsFor(df, parent_to_children(c2p), es)

candidates_top_types(c2p) ==
  sorted(Range(DictValues(c2p)) \ Range(DictKeys(c2p)))

\* Mutant of top_type_of: the first candidate is taken when there are
\* several.
top_type_of_first(c2p) ==
  IF Len(candidates_top_types(c2p)) >= 1 THEN candidates_top_types(c2p)[1] ELSE None

top_type_of(c2p) ==
  IF Len(candidates_top_types(c2p)) = 1 THEN candidates_top_types(c2p)[1] ELSE None

top_level_mask(df) ==
  [i \in 1..Len(df.rows) |-> df.rows[i]["Parent Academic Unit"] = EMPTY]

top_level_count_of(df) == Count(top_level_mask(df), TRUE)

\* Mutant of TopLevelCountErrors: err_no_top_level is not raised.
TopLevelCountErrors_no_anchor(df, es) ==
  LET top_level_count == top_level_count_of(df)
      mask == top_level_mask(df)
  IN  IF top_level_count # 1
      THEN AddErrs(es, Where(df, LAMBDA i : mask[i]),
                   "err_top_level_count_not_one",
                   Each(df, Msg("Invalid number of top-level rows: expected 1, found {}",
                                <<Str(top_level_count)>>)))
      ELSE es

TopLevelCountErrors(df, es) ==
  LET top_level_count == top_level_count_of(df)
      mask == top_level_mask(df)
      e1 == AddErrs(es, Where(df, LAMBDA i : mask[i]),
                    "err_top_level_count_not_one",
                    Each(df, Msg("Invalid number of top-level rows: expected 1, found {}",
                                 <<Str(top_level_count)>>)))
  IN  IF top_level_count # 1
      THEN IF top_level_count = 0
           THEN AddErrs(e1, Indices(Len(df.rows)), "err_no_top_level",
                        Each(df, Msg("No top-level row (a single root is required)", <<>>)))
           ELSE e1
      ELSE es

\* Mutant of TopTypeErrors: rows of the top type are not required to be
\* without parent.
TopTypeErrors_wrong_type_only(df, top_type, es) ==
  IF top_type # None
  THEN LET mask == top_level_mask(df)
       IN  AddErrs(es,
                   Where(df, LAMBDA i : mask[i]
                           /\ df.rows[i]["Academic Unit Type"] # top_type),
                   "err_top_row_wrong_type",
                   Each(df, Msg("Top-level row must be of top type '{}'", <<top_type>>)))
  ELSE es

TopTypeErrors(df, top_type, es) ==
  IF top_type # None
  THEN LET mask == top_level_mask(df)
           e1 == AddErrs(es,
                         Where(df, LAMBDA i : mask[i]
                                 /\ df.rows[i]["Academic Unit Type"] # top_type),
                         "err_top_row_wrong_type",
                         Each(df, Msg("Top-level row must be of top type '{}'", <<top_type>>)))
       IN  AddErrs(e1,
                   Where(df, LAMBDA i : df.rows[i]["Academic Unit Type"] = top_type
                           /\ ~mask[i]),
                   "err_top_type_has_parent",
                   Each(df, Msg("Units of top type '{}' must not have a parent", <<top_type>>)))
  ELSE es

expected_parent_type_col(df, c2p) ==
  [i \in 1..Len(df.rows) |->
     LET ct == df.rows[i]["Academic Unit Type"]
     IN  IF DictHas(c2p, ct) THEN DictGet(c2p, ct) ELSE None]

\* Mutant of ParentTypeErrorsAt: a parent without type is not compared
\* (`p_type and p_type != exp_pt`).
ParentTypeErrorsAt_truthy(df, idx, c2p, ambiguous, t2pc, es) ==
  LET ct       == df.rows[idx]["Academic Unit Type"]
      p_exists == df.rows[idx]["_Parent Exists"]
      p_type   == df.rows[idx]["_Parent Type (actual)"]
      exp_pt   == IF DictHas(c2p, ct) THEN DictGet(c2p, ct) ELSE None
      e1 == IF exp_pt # None /\ p_exists /\ Truthy(p_type) /\ p_type # exp_pt
            THEN _add_err(es, idx, "err_parent_type_mismatch",
                          Msg("Parent type mismatch: expected '{}', found '{}'",
                              <<exp_pt, p_type>>))
            ELSE es
      modes == IF DictHas(t2pc, ct)
               THEN sorted(Range(modes_of(DictGet(t2pc, ct))))
               ELSE <<>>
  IN  IF df.rows[idx]["Parent Academic Unit"] # EMPTY
      THEN IF exp_pt = None /\ p_exists /\ ct \in ambiguous
           THEN _add_err(e1, idx, "err_ambiguous_parent_type_for_child_type",
                         Msg("Ambiguous parent type for this child type (tie among: {})",
                             <<Join(modes, CommaSpace)>>))
           ELSE e1
      ELSE es

\* Mutant of ParentTypeErrorsAt: the comparison with the expected parent
\* type is left out.
ParentTypeErrorsAt_no_mismatch(df, idx, c2p, ambiguous, t2pc, es) ==
  LET ct       == df.rows[idx]["Academic Unit Type"]
      p_exists == df.rows[idx]["_Parent Exists"]
      exp_pt   == IF DictHas(c2p, ct) THEN DictGet(c2p, ct) ELSE None
      modes == IF DictHas(t2pc, ct)
               THEN sorted(Range(modes_of(DictGet(t2pc, ct))))
               ELSE <<>>
  IN  IF df.rows[idx]["Parent Academic Unit"] # EMPTY
           /\ exp_pt = None /\ p_exists /\ ct \in ambiguous
      THEN _add_err(es, idx, "err_ambiguous_parent_type_for_child_type",
                    Msg("Ambiguous parent type for this child type (tie among: {})",
                        <<Join(modes, CommaSpace)>>))
      ELSE es

\* The body of the loop of lines 336-365 for row idx.
ParentTypeErrorsAt(df, idx, c2p, ambiguous, t2pc, es) ==
  LET ct       == df.rows[idx]["Academic Unit Type"]
      p_exists == df.rows[idx]["_Parent Exists"]
      p_type   == df.rows[idx]["_Parent Type (actual)"]
      exp_pt   == IF DictHas(c2p, ct) THEN DictGet(c2p, ct) ELSE None
      e1 == IF exp_pt # None /\ p_exists /\ p_type # exp_pt
            THEN _add_err(es, idx, "err_parent_type_mismatch",
                          Msg("Parent type mismatch: expected '{}', found '{}'",
                              <<exp_pt, p_type>>))
            ELSE es
      modes == IF DictHas(t2pc, ct)
               THEN sorted(Range(modes_of(DictGet(t2pc, ct))))
               ELSE <<>>
  IN  IF df.rows[idx]["Parent Academic Unit"] # EMPTY
      THEN IF exp_pt = None /\ p_exists /\ ct \in ambiguous
           THEN _add_err(e1, idx, "err_ambiguous_parent_type_for_child_type",
                         Msg("Ambiguous parent type for this child type (tie among: {})",
                             <<Join(modes, CommaSpace)>>))
           ELSE e1
      ELSE es

RECURSIVE ParentTypeErrorsFrom(_, _, _, _, _, _)
ParentTypeErrorsFrom(df, idx, c2p, ambiguous, t2pc, es) ==
  IF idx > Len(df.rows) THEN es
  ELSE ParentTypeErrorsFrom(df, idx + 1, c2p, ambiguous, t2pc,
                            ParentTypeErrorsAt(df, idx, c2p, ambiguous, t2pc, es))

ParentTypeErrors(df, c2p, ambiguous, t2pc, es) ==
  ParentTypeErrorsFrom(df, 1, c2p, ambiguous, t2pc, es)

\* for col, values in err_flags.items(): df[col] = values
SetColumns(df, values) ==
  [columns |-> df.columns \cup DOMAIN values,
   rows    |-> [i \in 1..Len(df.rows) |->
                  [c \in df.columns \cup DOMAIN values |->
                     IF c \in DOMAIN values THEN values[c][i] ELSE df.rows[i][c]]]]

\* Mutant of any_err: .all(axis=1) in place of .any(axis=1).
any_err_all(es) ==
  [i \in DOMAIN es.errors_per_row |-> \A c \in DOMAIN es.err_flags : es.err_flags[c][i]]

any_err(es) ==
  [i \in DOMAIN es.errors_per_row |-> \E c \in DOMAIN es.err_flags : es.err_flags[c][i]]

RowValidColumn(es) ==
  LET any == any_err(es) IN [i \in DOMAIN es.errors_per_row |-> ~any[i]]

\* Mutant of SummaryOk: chain_errors left out of ok.
SummaryOk_rows_only(df, chain_errors) ==
  \A i \in 1..Len(df.rows) : df.rows[i]["Row Valid"]

SummaryOk(df, chain_errors) ==
  (\A i \in 1..Len(df.rows) : df.rows[i]["Row Valid"]) /\ chain_errors = <<>>

RowsWithErrors(df) == Count(Column(df, "Row Valid"), FALSE)

\* Mutant of FatalResult: the columns are normalized before the check of
\* their presence returns.
FatalResult_normalized(df, col) ==
  [df      |-> [columns |-> df.columns,
                rows    |-> [i \in 1..Len(df.rows) |->
                               [c \in df.columns |->
                                  IF c \in Range(REQUIRED_COLUMNS)
                                  THEN Strip(IF df.rows[i][c] = NaN THEN <<>> ELSE df.rows[i][c])
                                  ELSE df.rows[i][c]]]],
   summary |-> [ok |-> FALSE, fatal_error |-> Msg("Missing required column: {}", <<col>>)]]

FatalResult(df, col) ==
  [df      |-> df,
   summary |-> [ok |-> FALSE, fatal_error |-> Msg("Missing required column: {}", <<col>>)]]

validate_hierarchy(df_raw, seed) ==
  IF MissingColumn(df_raw) # ""
  THEN FatalResult(df_raw, MissingColumn(df_raw))
  ELSE
  LET df1   == NormalizedFrame(df_raw)
      es1   == RequiredValueErrors(df1, NoErrors(Len(df1.rows)))
      es2   == DuplicateErrors(df1, es1)
      es3   == MultiParentErrors(df1, es2)
      es4   == ParentNotFoundErrors(df1, es3)
      df2   == SetColumn(SetColumn(df1, "_Parent Exists", parent_exists(df1)),
                         "_Parent Type (actual)", parent_type_for_row(df1))
      t2pc  == type_to_parent_counts(df2)
      c2p   == child_to_parent_type_unique(t2pc)
      amb   == ambiguous_child_types(t2pc)
      chain == _compute_type_chain(c2p, seed)
      es5   == SharedParentErrors(df2, c2p, es4)
      top   == top_type_of(c2p)
      es6   == TopLevelCountErrors(df2, es5)
      es7   == TopTypeErrors(df2, top, es6)
      es8   == ParentTypeErrors(df2, c2p, amb, t2pc, es7)
      df3   == SetColumn(df2, "_Expected Parent Type", expected_parent_type_col(df2, c2p))
      df4   == SetColumns(df3, es8.err_flags)
      df5   == SetColumn(df4, "Errors", es8.errors_per_row)
      df6   == SetColumn(df5, "Row Valid", RowValidColumn(es8))
  IN  [df      |-> df6,
       summary |->
         [ok                          |-> SummaryOk(df6, chain.chain_errors),
          total_rows                  |-> Len(df6.rows),
          unique_abbreviations        |-> Cardinality(Range(Column(df6, "Abbreviation"))),
          duplicate_abbreviations     |-> Count(dup_mask(df1), TRUE),
          distinct_types              |-> sorted(Range(Column(df6, "Academic Unit Type")) \ {EMPTY}),
          child_to_parent_type_unique |-> c2p,
          ordered_types               |-> chain.ordered_types,
          chain_errors                |-> chain.chain_errors,
          top_type                    |-> top,
          top_level_count             |-> top_level_count_of(df2),
          rows_with_errors            |-> RowsWithErrors(df6)]]

----------------------------------------------------------------------------
(* Input tables *)

MaxRows == 2

MaxKids == 3

Row(t, a, ty, p) ==
  ("Title" :> t) @@ ("Abbreviation" :> a) @@ ("Academic Unit Type" :> ty)
    @@ ("Parent Academic Unit" :> p)

Frame(cols, rows) == [columns |-> cols, rows |-> rows]

Frames(rowset, n) ==
  {Frame(Range(REQUIRED_COLUMNS), rs) : rs \in [1..n -> rowset]}

\* Raw tables of at most MaxRows rows: empty cells (NaN, as _read_csv
\* yields them), blank cells, padded values, repeated abbreviations.
LocalRows ==
  {Row(t, a, ty, p) :
     t  \in {<<"T">>, <<" ">>},
     a  \in {<<"a">>, <<"a", " ">>, NaN},
     ty \in {<<"X">>, <<" ", "Y">>},
     p  \in {NaN, <<" ", "a">>}}

LocalFrames == UNION {Frames(LocalRows, n) : n \in 0..MaxRows}

\* Three units a, b, c of any of three types, each with no parent, a
\* parent among the three (itself included) or an unknown parent q.
TreeRows(a) ==
  {Row(<<"T">>, a, ty, p) :
     ty \in {<<"X">>, <<"Y">>, <<"Z">>},
     p  \in {NaN, <<"a">>, <<"b">>, <<"c">>, <<"q">>}}

TreeFrames ==
  {Frame(Range(REQUIRED_COLUMNS), <<ra, rb, rc>>) :
     ra \in TreeRows(<<"a">>), rb \in TreeRows(<<"b">>), rc \in TreeRows(<<"c">>)}

\* A root a of type X, a unit b under it (of type Y or without type), and
\* up to MaxKids further units c, d, ..., each of b's type or of type Z and
\* each under a, b or the unknown q.
KidAbbr == <<<<"c">>, <<"d">>, <<"e">>, <<"f">>>>

KidChoices(t2) == {<<ty, p>> : ty \in {t2, <<"Z">>}, p \in {<<"a">>, <<"b">>, <<"q">>}}

KidSeq(choices) ==
  [i \in DOMAIN choices |-> Row(<<"T">>, KidAbbr[i], choices[i][1], choices[i][2])]

VoteFrames ==
  UNION {{Frame(Range(REQUIRED_COLUMNS),
                <<Row(<<"T">>, <<"a">>, <<"X">>, NaN), Row(<<"T">>, <<"b">>, t2, <<"a">>)>>
                  \o KidSeq(choices)) :
            choices \in [1..n -> KidChoices(t2)]} :
           t2 \in {<<"Y">>, NaN}, n \in 0..MaxKids}

\* Tables that lack at least one required column; some carry a further
\* column, Notes.
FatalColumnSets ==
  {cs \in SUBSET (Range(REQUIRED_COLUMNS) \cup {"Notes"}) :
     Range(REQUIRED_COLUMNS) \ cs # {}}

\* A row is padded throughout, empty throughout, or padded in Title only.
FatalRows(cs) ==
  {[c \in cs |-> IF c \in pad THEN <<" ", "a">> ELSE NaN] :
     pad \in {{}, cs, cs \cap {"Title"}}}

FatalFrames ==
  UNION {{Frame(cs, rs) : rs \in [1..n -> FatalRows(cs)]} :
           cs \in FatalColumnSets, n \in 0..MaxRows}

\* Four types: a root a of type X, b of type Y under it, a unit c of type Z
\* or X that is a second root, a child of a or an orphan, and a unit d of
\* type W under one of the others or without parent.
ForestFrames ==
  {Frame(Range(REQUIRED_COLUMNS),
         << Row(<<"T">>, <<"a">>, <<"X">>, NaN), Row(<<"T">>, <<"b">>, <<"Y">>, <<"a">>),
            Row(<<"T">>, <<"c">>, tc, p), Row(<<"T">>, <<"d">>, <<"W">>, pd) >>) :
     tc \in {<<"Z">>, <<"X">>},
     p  \in {NaN, <<"a">>, <<"q">>},
     pd \in {NaN, <<"a">>, <<"b">>, <<"c">>}}

\* Tables with further columns beside the required ones: Notes, and a
\* column that bears the name of an output column, Errors.
ExtraColumns == {"Notes", "Errors"}

ExtraCells(col) ==
  IF col = "Notes" THEN {<<"n">>, NaN}
  ELSE {<<"s", "e", "e", " ", "n", "o", "t", "e", "s">>}

ExtraRows(extra) ==
  {Row(<<"T">>, a, <<"X">>, p) @@ cells :
     a \in {<<"a">>, <<"b">>},
     p \in {NaN, <<"a">>},
     cells \in [extra -> UNION {ExtraCells(col) : col \in extra}]}

ExtraFrames ==
  UNION {{Frame(Range(REQUIRED_COLUMNS) \cup extra, rs) :
            rs \in {r \in [1..n -> ExtraRows(extra)] :
                      \A i \in 1..n : \A col \in extra : r[i][col] \in ExtraCells(col)}} :
           extra \in (SUBSET ExtraColumns) \ {{}}, n \in 0..MaxRows}

\* A root a of type X, b of type Y under it, and four units c, d, e, f of
\* type Z, each under a, b, c or the unknown q: up to three parent types
\* for one child type.
PluralityFrames ==
  {Frame(Range(REQUIRED_COLUMNS),
         << Row(<<"T">>, <<"a">>, <<"X">>, NaN), Row(<<"T">>, <<"b">>, <<"Y">>, <<"a">>) >>
           \o [i \in 1..4 |-> Row(<<"T">>, KidAbbr[i], <<"Z">>, ps[i])]) :
     ps \in [1..4 -> {<<"a">>, <<"b">>, <<"c">>, <<"q">>}]}

\* Three units of type X that share the abbreviations a and b, each
\* without parent or under a, b or the unknown q.
SharedRows ==
  {Row(<<"T">>, a, <<"X">>, p) :
     a \in {<<"a">>, <<"b">>},
     p \in {NaN, <<"a">>, <<"b">>, <<"q">>}}

SharedFrames ==
  {Frame(Range(REQUIRED_COLUMNS), <<r1, r2, r3>>) :
     r1 \in SharedRows, r2 \in SharedRows, r3 \in SharedRows}

\* A root a of type X, b of type Y or without type under it, and two more
\* units c, d of type X, each under a, b or the unknown q.
TopFrames ==
  {Frame(Range(REQUIRED_COLUMNS),
         << Row(<<"T">>, <<"a">>, <<"X">>, NaN), Row(<<"T">>, <<"b">>, tb, <<"a">>),
            Row(<<"T">>, <<"c">>, <<"X">>, p3), Row(<<"T">>, <<"d">>, <<"X">>, p4) >>) :
     tb \in {<<"Y">>, NaN},
     p3 \in {<<"a">>, <<"b">>, <<"q">>},
     p4 \in {<<"a">>, <<"b">>, <<"q">>}}

AllFrames ==
  LocalFrames \cup TreeFrames \cup VoteFrames \cup ForestFrames \cup PluralityFrames
    \cup SharedFrames \cup TopFrames \cup ExtraFrames \cup FatalFrames

RECURSIVE Perms(_)
Perms(S) ==
  IF S = {} THEN {<<>>}
  ELSE UNION {{<<x>> \o p : p \in Perms(S \ {x})} : x \in S}

\* The set all_types that _compute_type_chain iterates in a run on df.
TypeUniverse(df) ==
  IF MissingColumn(df) # "" THEN {}
  ELSE LET df1 == NormalizedFrame(df)
           df2 == SetColumn(SetColumn(df1, "_Parent Exists", parent_exists(df1)),
                            "_Parent Type (actual)", parent_type_for_row(df1))
           c2p == child_to_parent_type_unique(type_to_parent_counts(df2))
       IN  Range(DictKeys(c2p)) \cup Range(DictValues(c2p))

NoResult == [df |-> [columns |-> {}, rows |-> <<>>], summary |-> [ok |-> FALSE]]

HasResult == out # NoResult

----------------------------------------------------------------------------
(* The application: upload, validate, rerun, restart *)

\* Mutant of df_in_after: without the copy of line 144 the caller's table is
\* the table the function has worked on.
df_in_after_alias(df_raw, result) == result.df

\* The caller's table once validate_hierarchy has returned: the function
\* works on df_in.copy(), so the table passed in is as it was.
df_in_after(df_raw, result) == df_raw

InitWith(frames) ==
  /\ df_in \in frames
  /\ hashSeed \in Perms(TypeUniverse(df_in))
  /\ pc = "uploaded"
  /\ out = NoResult
  /\ chain_map = <<>>
  /\ chain_cur = None
  /\ chain_ordered = <<>>

\* Lines 414-420: the script validates the uploaded table and stops on a
\* fatal error.
Validate ==
  /\ pc = "uploaded"
  /\ out' = validate_hierarchy(df_in, hashSeed)
  /\ pc' = IF "fatal_error" \in DOMAIN out'.summary THEN "stopped" ELSE "shown"
  /\ df_in' = df_in_after(df_in, out')
  /\ UNCHANGED <<hashSeed, chainVars>>

\* A widget interaction reruns the script in the same process.
Rerun ==
  /\ pc = "shown"
  /\ out' = validate_hierarchy(df_in, hashSeed)
  /\ df_in' = df_in_after(df_in, out')
  /\ UNCHANGED <<hashSeed, pc, chainVars>>

\* A new interpreter process: a new string hash seed; the same file is
\* uploaded again, the previous result is what the user has kept.
Restart ==
  /\ pc \in {"shown", "stopped"}
  /\ hashSeed' \in Perms(TypeUniverse(df_in))
  /\ pc' = "uploaded"
  /\ UNCHANGED <<df_in, out, chainVars>>

Next == Validate \/ Rerun \/ Restart

Init == InitWith(AllFrames)

Spec == Init /\ [][Next]_vars

\* The same program on the tables in which a row order can be told apart:
\* the families whose abbreviations can all differ.
PermFrames == LocalFrames \cup TreeFrames \cup ForestFrames \cup TopFrames

InitPerm == InitWith(PermFrames)

PermSpec == InitPerm /\ [][Next]_vars

----------------------------------------------------------------------------
(* _compute_type_chain on its own, statement by statement *)

MaxChainKeys == 3

ChainTypes == {EMPTY, <<"X">>, <<"Y">>, <<"Z">>}

\* Every dict of at most MaxChainKeys entries over ChainTypes, in every
\* insertion order.
ChainMappings ==
  UNION {{d \in [1..n -> ChainTypes \X ChainTypes] :
            \A i, j \in 1..n : d[i][1] = d[j][1] => i = j} :
           n \in 0..MaxChainKeys}

InitChain ==
  /\ chain_map \in ChainMappings
  /\ hashSeed \in Perms(all_types(chain_map))
  /\ pc = "chain"
  /\ chain_cur = None
  /\ chain_ordered = <<>>
  /\ df_in = Frame(Range(REQUIRED_COLUMNS), <<>>)
  /\ out = NoResult

\* Lines 113-122 and 132-133: with a root the walk starts at roots[0],
\* without one the list is list(all_types).
ChainStart ==
  /\ pc = "chain"
  /\ LET roots == chain_roots(chain_map)
     IN  IF roots # <<>>
         THEN /\ chain_cur' = roots[1]
              /\ chain_ordered' = <<>>
              /\ pc' = "walk"
         ELSE /\ chain_cur' = None
              /\ chain_ordered' = SetIter(all_types(chain_map), hashSeed)
              /\ pc' = "chain_done"
  /\ UNCHANGED <<df_in, hashSeed, out, chain_map>>

\* Lines 124-127: one turn of `while cur and cur not in seen`.
ChainWalkStep ==
  /\ pc = "walk"
  /\ Truthy(chain_cur) /\ chain_cur \notin Range(chain_ordered)
  /\ chain_ordered' = Append(chain_ordered, chain_cur)
  /\ chain_cur' = LET parent_to_child == SetDefaultAll(<<>>, chain_map)
                  IN  IF DictHas(parent_to_child, chain_cur)
                      THEN DictGet(parent_to_child, chain_cur)
                      ELSE None
  /\ UNCHANGED <<df_in, hashSeed, out, pc, chain_map>>

\* Mutant of ChainWalkEnd: every type is appended, reached or not.
ChainWalkEnd_all_types ==
  /\ pc = "walk"
  /\ ~(Truthy(chain_cur) /\ chain_cur \notin Range(chain_ordered))
  /\ chain_ordered' = chain_ordered \o SetIter(all_types(chain_map), hashSeed)
  /\ pc' = "chain_done"
  /\ UNCHANGED <<df_in, hashSeed, out, chain_map, chain_cur>>

\* Lines 129-131 and 135: the loop is left, the leftovers are appended.
ChainWalkEnd ==
  /\ pc = "walk"
  /\ ~(Truthy(chain_cur) /\ chain_cur \notin Range(chain_ordered))
  /\ chain_ordered' =
       chain_ordered \o SelectSeq(SetIter(all_types(chain_map), hashSeed),
                                   LAMBDA t : t \notin Range(chain_ordered))
  /\ pc' = "chain_done"
  /\ UNCHANGED <<df_in, hashSeed, out, chain_map, chain_cur>>

NextChain == ChainStart \/ ChainWalkStep \/ ChainWalkEnd

\* The interpreter keeps executing the function until it returns.
ChainSpec == InitChain /\ [][NextChain]_vars /\ WF_vars(NextChain)

----------------------------------------------------------------------------
(* Vocabulary of the properties: the last result, read column by column *)

Fatal == HasResult /\ "fatal_error" \in DOMAIN out.summary

Normal == HasResult /\ "fatal_error" \notin DOMAIN out.summary

OutRows == out.df.rows

NRows == Len(out.df.rows)

RowIds == 1..Len(out.df.rows)

TitleOf(i) == out.df.rows[i]["Title"]

AbbrOf(i) == out.df.rows[i]["Abbreviation"]

TypeOf(i) == out.df.rows[i]["Academic Unit Type"]

ParentOf(i) == out.df.rows[i]["Parent Academic Unit"]

ActualOf(i) == out.df.rows[i]["_Parent Type (actual)"]

Flag(i, c) == out.df.rows[i][c]

HasMsg(i, m) == m \in Range(out.df.rows[i]["Errors"])

AnyFlag(i) == \E c \in Range(ERR_COLS) : Flag(i, c)

Mapping == DictAsFunction(out.summary.child_to_parent_type_unique)

TypesPresent == {TypeOf(i) : i \in RowIds}

\* Row i names a parent and some row carries that abbreviation.
Resolves(i) == ParentOf(i) # EMPTY /\ \E j \in RowIds : AbbrOf(j) = ParentOf(i)

\* The listing of a set of strings in increasing order.
Ascending(S) ==
  CHOOSE s \in Perms(S) : \A a, b \in DOMAIN s : a < b => StrLess(s[a], s[b])

----------------------------------------------------------------------------
(* C1: in every annotated output, `Row Valid` is true on a row if and only  *)
(* if every err_* flag column is false on that row.                         *)
C1_RowValidIffNoFlag ==
  Normal => \A i \in RowIds : Flag(i, "Row Valid") <=> ~AnyFlag(i)

\* An output holding a valid row next to a row with several flags.
C1_Witness ==
  /\ Normal
  /\ \E i, j \in RowIds :
       /\ Flag(i, "Row Valid")
       /\ ~Flag(j, "Row Valid")
       /\ Cardinality({c \in Range(ERR_COLS) : Flag(j, c)}) >= 2

----------------------------------------------------------------------------
RECURSIVE Up(_, _, _)
Up(m, t, n) == IF n = 0 \/ t \notin DOMAIN m THEN t ELSE Up(m, m[t], n - 1)

SimplePath(m) ==
  LET roots == {m[k] : k \in DOMAIN m} \ DOMAIN m
  IN  /\ \A k1, k2 \in DOMAIN m : m[k1] = m[k2] => k1 = k2
      /\ Cardinality(roots) = 1
      /\ \A k \in DOMAIN m : m[k] # k
      /\ \A k \in DOMAIN m : Up(m, k, Cardinality(DOMAIN m)) \in roots

(* C2: whenever chain_errors is empty, the inferred child type -> parent    *)
(* type mapping is a simple path: no type is the parent of two child types, *)
(* there is exactly one root type, no cycle (no type mapped to itself), and *)
(* every type of the mapping is connected to that root.                     *)
C2_NoChainErrorMeansSimplePath ==
  (Normal /\ out.summary.chain_errors = <<>>) => SimplePath(Mapping)

----------------------------------------------------------------------------
(* C3: whenever chain_errors is non-empty at least one row of the annotated *)
(* output carries an error flag, so that no run reports ok = false together *)
(* with rows_with_errors = 0.  (Stated for tables of at least one row.)     *)
C3_ChainErrorsReachRows ==
  (Normal /\ NRows >= 1) =>
    /\ out.summary.chain_errors # <<>> => \E i \in RowIds : AnyFlag(i)
    /\ ~(out.summary.ok = FALSE /\ out.summary.rows_with_errors = 0)

----------------------------------------------------------------------------
(* C4: ok is true if and only if every row has `Row Valid` true and         *)
(* chain_errors is empty; rows_with_errors is the number of rows with       *)
(* `Row Valid` false.                                                       *)
C4_OkAndErrorCount ==
  Normal =>
    /\ out.summary.ok <=>
         ((\A i \in RowIds : Flag(i, "Row Valid")) /\ out.summary.chain_errors = <<>>)
    /\ out.summary.rows_with_errors =
         Cardinality({i \in RowIds : ~Flag(i, "Row Valid")})

\* All rows are valid and yet the run is not ok: only the chain check fails.
C4_Witness ==
  /\ Normal
  /\ NRows >= 2
  /\ \A i \in RowIds : Flag(i, "Row Valid")
  /\ out.summary.chain_errors # <<>>
  /\ ~out.summary.ok

----------------------------------------------------------------------------
AddedColumns == DIAG_COLS \cup Range(ERR_COLS) \cup {"Errors", "Row Valid"}

(* C5: a fatal_error is reported if and only if a required column is        *)
(* absent; then ok is false and the returned table is the input as it was:  *)
(* no diagnostic, err_*, Errors or Row Valid column, and no cell of a       *)
(* required column that is present has been normalized.                     *)
C5_FatalIffColumnMissing ==
  HasResult =>
    /\ Fatal <=> (\E col \in Range(REQUIRED_COLUMNS) : col \notin df_in.columns)
    /\ Fatal =>
         /\ out.summary.ok = FALSE
         /\ out.df.columns \cap AddedColumns = {}
         /\ out.df = df_in

\* A fatal run on a table whose Title column is present and holds a padded
\* cell, the missing column being a later one.
C5_Witness ==
  /\ Fatal
  /\ "Title" \in df_in.columns
  /\ "Parent Academic Unit" \notin df_in.columns
  /\ \E i \in DOMAIN df_in.rows : df_in.rows[i]["Title"] = <<" ", "a">>

----------------------------------------------------------------------------
(* C6: when the required columns are present the annotated output has as    *)
(* many rows as the input, row i of the output being row i of the input     *)
(* (its four required cells normalized), and total_rows is that number.     *)
C6_RowsKept ==
  Normal =>
    /\ NRows = Len(df_in.rows)
    /\ out.summary.total_rows = Len(df_in.rows)
    /\ \A i \in RowIds : \A col \in Range(REQUIRED_COLUMNS) :
         out.df.rows[i][col] =
           Strip(IF df_in.rows[i][col] = NaN THEN <<>> ELSE df_in.rows[i][col])

\* Two input rows that differ, the first without abbreviation.
C6_Witness ==
  /\ Normal
  /\ NRows = 2
  /\ AbbrOf(1) = EMPTY
  /\ AbbrOf(2) # EMPTY
  /\ df_in.rows[2]["Abbreviation"] # AbbrOf(2)

----------------------------------------------------------------------------
(* C7: two runs of validate_hierarchy on the same input give the same       *)
(* annotated output and the same summary, ordered_types included: a run     *)
(* never replaces an existing result by a different one.                    *)
C7_SameInputSameResult == [][HasResult => out' = out]_vars

----------------------------------------------------------------------------
\* The conditions the claim lists, T being the chain T0, ..., Tk.
CleanChain(T) ==
  /\ Len(T) >= 2
  /\ Range(T) = TypesPresent
  /\ \A i \in RowIds : TitleOf(i) # EMPTY /\ AbbrOf(i) # EMPTY /\ TypeOf(i) # EMPTY
  /\ \A i, j \in RowIds : AbbrOf(i) = AbbrOf(j) => i = j
  /\ Cardinality({i \in RowIds : ParentOf(i) = EMPTY}) = 1
  /\ \A i \in RowIds : ParentOf(i) = EMPTY => TypeOf(i) = T[1]
  /\ \A i \in RowIds : \A k \in 2..Len(T) :
       TypeOf(i) = T[k] => \E j \in RowIds : AbbrOf(j) = ParentOf(i) /\ TypeOf(j) = T[k - 1]

\* No unit of the top type T0 has a parent.
TopTypeRowsAreRoots(T) == \A i \in RowIds : TypeOf(i) = T[1] => ParentOf(i) = EMPTY

CleanResult(T) ==
  /\ out.summary.ok = TRUE
  /\ out.summary.rows_with_errors = 0
  /\ out.summary.top_type = T[1]
  /\ out.summary.ordered_types = T

(* C8: a clean linear chain of types T0 > T1 > ... > Tk (k >= 1) validates  *)
(* with ok = true, rows_with_errors = 0, top_type = T0 and                  *)
(* ordered_types = [T0, ..., Tk].                                           *)
C8_CleanChainValidates_Original ==
  Normal => \A T \in Perms(TypesPresent) : CleanChain(T) => CleanResult(T)

\* C8 (amended): the same, for chains in which no unit of type T0 has a
\* parent.
C8_CleanChainValidates ==
  Normal =>
    \A T \in Perms(TypesPresent) :
      (CleanChain(T) /\ TopTypeRowsAreRoots(T)) => CleanResult(T)

\* A clean chain of three types over five rows.
C8_Witness ==
  /\ Normal
  /\ NRows = 5
  /\ \E T \in Perms(TypesPresent) :
       Len(T) = 3 /\ CleanChain(T) /\ TopTypeRowsAreRoots(T)

----------------------------------------------------------------------------
MismatchMsg(expected, found) ==
  Msg("Parent type mismatch: expected '{}', found '{}'", <<expected, found>>)

(* C9: a row whose parent abbreviation resolves to a known row is flagged   *)
(* err_parent_type_mismatch if and only if its unit type has an expected    *)
(* parent type in the inferred mapping and the resolved parent's type       *)
(* differs from it; the message names the expected and the found type; a    *)
(* row whose parent has the expected type is never flagged.                 *)
C9_MismatchIffDiffersFromExpected ==
  Normal =>
    \A i \in RowIds :
      Resolves(i) =>
        /\ \E j \in RowIds : AbbrOf(j) = ParentOf(i) /\ TypeOf(j) = ActualOf(i)
        /\ Flag(i, "err_parent_type_mismatch") <=>
             (TypeOf(i) \in DOMAIN Mapping /\ ActualOf(i) # Mapping[TypeOf(i)])
        /\ Flag(i, "err_parent_type_mismatch") =>
             HasMsg(i, MismatchMsg(Mapping[TypeOf(i)], ActualOf(i)))

\* Two units of one type under parents of the expected type, and a third
\* under a parent of another type: only the third is flagged.
C9_Witness ==
  /\ Normal
  /\ \E i, j, k \in RowIds :
       /\ i # j
       /\ TypeOf(i) = TypeOf(k) /\ TypeOf(j) = TypeOf(k)
       /\ Resolves(i) /\ Resolves(j) /\ Resolves(k)
       /\ TypeOf(k) \in DOMAIN Mapping
       /\ ActualOf(i) = Mapping[TypeOf(k)] /\ ActualOf(j) = Mapping[TypeOf(k)]
       /\ ActualOf(k) # EMPTY
       /\ Flag(k, "err_parent_type_mismatch")
       /\ ~Flag(i, "err_parent_type_mismatch") /\ ~Flag(j, "err_parent_type_mismatch")

----------------------------------------------------------------------------
\* Rows of type ct whose parent resolves to a row of the non-empty type pt.
Votes(ct, pt) ==
  Cardinality({i \in RowIds : TypeOf(i) = ct /\ Resolves(i) /\ ActualOf(i) = pt})

Candidates(ct) == {pt \in TypesPresent \ {EMPTY} : Votes(ct, pt) > 0}

Tied(ct) == {pt \in Candidates(ct) : \A q \in Candidates(ct) : Votes(ct, pt) >= Votes(ct, q)}

AmbiguousMsg(S) ==
  Msg("Ambiguous parent type for this child type (tie among: {})",
      <<Join(Ascending(S), CommaSpace)>>)

(* C10: a child type whose highest parent-type count is shared by two or    *)
(* more parent types has no entry in child_to_parent_type_unique; each of   *)
(* its rows whose parent resolves is flagged                                *)
(* err_ambiguous_parent_type_for_child_type, the message listing the tied   *)
(* types in sorted order, and is not flagged err_parent_type_mismatch; no   *)
(* row carries both flags.                                                  *)
C10_TieIsAmbiguous ==
  Normal =>
    /\ \A ct \in TypesPresent :
         Cardinality(Tied(ct)) >= 2 =>
           /\ ct \notin DOMAIN Mapping
           /\ \A i \in RowIds :
                (TypeOf(i) = ct /\ Resolves(i)) =>
                  /\ Flag(i, "err_ambiguous_parent_type_for_child_type")
                  /\ HasMsg(i, AmbiguousMsg(Tied(ct)))
                  /\ ~Flag(i, "err_parent_type_mismatch")
    /\ \A i \in RowIds :
         ~(Flag(i, "err_parent_type_mismatch")
             /\ Flag(i, "err_ambiguous_parent_type_for_child_type"))

\* An even split: the first vote goes to the type that sorts last.
C10_Witness ==
  /\ Normal
  /\ \E ct \in TypesPresent :
       /\ Tied(ct) = {<<"X">>, <<"Y">>}
       /\ \E i, j \in RowIds :
            /\ i < j
            /\ TypeOf(i) = ct /\ TypeOf(j) = ct
            /\ ActualOf(i) = <<"Y">> /\ ActualOf(j) = <<"X">>
            /\ Flag(i, "err_ambiguous_parent_type_for_child_type")
            /\ Flag(j, "err_ambiguous_parent_type_for_child_type")

----------------------------------------------------------------------------
\* The child types that share their parent type with another child type.
Colliding ==
  {ct \in DOMAIN Mapping :
     \E other \in DOMAIN Mapping : other # ct /\ Mapping[other] = Mapping[ct]}

(* C11: a row carries err_multiple_child_types_share_parent_type if and     *)
(* only if its unit type is one of two or more child types that the         *)
(* inferred mapping sends to the same parent type, whether or not the row's *)
(* own parent is empty or unresolved; in that case chain_errors is          *)
(* non-empty.                                                               *)
C11_BranchingFlagsCollidingTypes ==
  Normal =>
    /\ \A i \in RowIds :
         Flag(i, "err_multiple_child_types_share_parent_type") <=> TypeOf(i) \in Colliding
    /\ Colliding # {} => out.summary.chain_errors # <<>>

\* Two colliding child types, one of them with a row whose parent is
\* unknown: that row is flagged as well.
C11_Witness ==
  /\ Normal
  /\ Cardinality(Colliding) = 2
  /\ \E i \in RowIds :
       /\ TypeOf(i) \in Colliding
       /\ ParentOf(i) # EMPTY
       /\ ~Resolves(i)
       /\ Flag(i, "err_multiple_child_types_share_parent_type")

----------------------------------------------------------------------------
\* The rows without parent.
TopRows == {i \in RowIds : ParentOf(i) = EMPTY}

(* C12: top_level_count is the number of rows whose normalized parent is    *)
(* empty.  If it is 1 no row carries err_top_level_count_not_one or         *)
(* err_no_top_level; if it is greater than 1 exactly the rows without       *)
(* parent carry err_top_level_count_not_one; if it is 0 every row carries   *)
(* err_no_top_level.  In the last two cases ok is false.                    *)
C12_TopLevelCount ==
  Normal =>
    /\ out.summary.top_level_count = Cardinality(TopRows)
    /\ Cardinality(TopRows) = 1 =>
         \A i \in RowIds : /\ ~Flag(i, "err_top_level_count_not_one")
                           /\ ~Flag(i, "err_no_top_level")
    /\ Cardinality(TopRows) > 1 =>
         \A i \in RowIds : Flag(i, "err_top_level_count_not_one") <=> i \in TopRows
    /\ Cardinality(TopRows) = 0 =>
         \A i \in RowIds : Flag(i, "err_no_top_level")
    /\ Cardinality(TopRows) # 1 => out.summary.ok = FALSE

\* Three rows, each with a parent: all of them lack the anchor.
C12_Witness ==
  /\ Normal
  /\ NRows = 3
  /\ TopRows = {}
  /\ \A i \in RowIds : Flag(i, "err_no_top_level")

----------------------------------------------------------------------------
(* C13: a row carries err_duplicate_abbreviation if and only if its         *)
(* normalized abbreviation is non-empty and is the abbreviation of another  *)
(* row (every occurrence is flagged); a table whose abbreviations are all   *)
(* different has duplicate_abbreviations = 0 and no such flag.              *)
C13_DuplicateAbbreviation ==
  Normal =>
    /\ \A i \in RowIds :
         Flag(i, "err_duplicate_abbreviation") <=>
           (AbbrOf(i) # EMPTY /\ \E j \in RowIds : j # i /\ AbbrOf(j) = AbbrOf(i))
    /\ (\A i, j \in RowIds : i # j => AbbrOf(i) # AbbrOf(j)) =>
         /\ out.summary.duplicate_abbreviations = 0
         /\ \A i \in RowIds : ~Flag(i, "err_duplicate_abbreviation")

\* Two raw abbreviations that differ only by padding: both rows are flagged.
C13_Witness ==
  /\ Normal
  /\ NRows = 2
  /\ df_in.rows[1]["Abbreviation"] # df_in.rows[2]["Abbreviation"]
  /\ Flag(1, "err_duplicate_abbreviation")
  /\ Flag(2, "err_duplicate_abbreviation")
  /\ out.summary.duplicate_abbreviations = 2

----------------------------------------------------------------------------
(* C14: err_parent_not_found is true on a row if and only if its normalized *)
(* parent abbreviation is non-empty and no row has it as abbreviation;      *)
(* `_Parent Exists` is true if and only if the parent abbreviation is       *)
(* non-empty and some row has it as abbreviation.  This holds whatever the  *)
(* type-chain checks report.                                                *)
C14_ParentNotFound ==
  Normal =>
    \A i \in RowIds :
      /\ Flag(i, "err_parent_not_found") <=>
           (ParentOf(i) # EMPTY /\ ~\E j \in RowIds : AbbrOf(j) = ParentOf(i))
      /\ Flag(i, "_Parent Exists") <=> Resolves(i)

\* A row with an unknown parent beside a row whose parent exists, in a
\* table whose type chain is in error.
C14_Witness ==
  /\ Normal
  /\ out.summary.chain_errors # <<>>
  /\ \E i, j \in RowIds :
       /\ Flag(i, "err_parent_not_found") /\ ~Flag(i, "_Parent Exists")
       /\ Flag(j, "_Parent Exists") /\ ~Flag(j, "err_parent_not_found")

----------------------------------------------------------------------------
\* The types that are a value of the inferred mapping and never a key.
RootTypes == {Mapping[k] : k \in DOMAIN Mapping} \ DOMAIN Mapping

RootErrorTexts ==
  {"Type chain error: no unique top type (cycle or all types are children).",
   "Type chain error: multiple candidate top types: {}."}

(* C15: top_type is the one type that is a value of the inferred mapping    *)
(* and never a key; when there is no such type or more than one, top_type   *)
(* is null, and that is exactly when chain_errors holds a "no unique top    *)
(* type" or a "multiple candidate top types" message.                       *)
C15_TopTypeIsUniqueRoot ==
  Normal =>
    /\ Cardinality(RootTypes) = 1 => out.summary.top_type \in RootTypes
    /\ Cardinality(RootTypes) # 1 => out.summary.top_type = None
    /\ out.summary.top_type = None <=>
         \E k \in DOMAIN out.summary.chain_errors :
           out.summary.chain_errors[k].text \in RootErrorTexts

\* Two root types: top_type is null and the message lists both, sorted.
C15_Witness ==
  /\ Normal
  /\ Cardinality(RootTypes) = 2
  /\ out.summary.top_type = None
  /\ out.summary.chain_errors[1] =
       Msg("Type chain error: multiple candidate top types: {}.",
           <<Join(Ascending(RootTypes), CommaSpace)>>)

----------------------------------------------------------------------------
(* C16: when top_type is known, a row carries err_top_row_wrong_type if and *)
(* only if its parent is empty and its type is not top_type, and            *)
(* err_top_type_has_parent if and only if its type is top_type and its      *)
(* parent is not empty.  When top_type is null no row carries either flag,  *)
(* and the count of the rows without parent is still checked.               *)
C16_TopTypeRowChecks ==
  Normal =>
    /\ out.summary.top_type # None =>
         \A i \in RowIds :
           /\ Flag(i, "err_top_row_wrong_type") <=>
                (ParentOf(i) = EMPTY /\ TypeOf(i) # out.summary.top_type)
           /\ Flag(i, "err_top_type_has_parent") <=>
                (TypeOf(i) = out.summary.top_type /\ ParentOf(i) # EMPTY)
    /\ out.summary.top_type = None =>
         /\ \A i \in RowIds : /\ ~Flag(i, "err_top_row_wrong_type")
                              /\ ~Flag(i, "err_top_type_has_parent")
         /\ Cardinality(TopRows) # 1 =>
              \A i \in TopRows : Flag(i, "err_top_level_count_not_one")

\* A known top type, a second row without parent of another type, and a
\* row of the top type that names a parent.
C16_Witness ==
  /\ Normal
  /\ out.summary.top_type # None
  /\ \E i, j \in RowIds :
       /\ Flag(i, "err_top_row_wrong_type") /\ ~Flag(i, "err_top_type_has_parent")
       /\ Flag(j, "err_top_type_has_parent") /\ ~Flag(j, "err_top_row_wrong_type")

----------------------------------------------------------------------------
\* The columns of the input beside the four required ones.
InputExtraColumns == df_in.columns \ Range(REQUIRED_COLUMNS)

(* C17: every input column other than the four required ones is a column   *)
(* of the annotated output, under the same name and with the same value on  *)
(* every row, whatever its name, the name of a diagnostic column included.  *)
C17_ExtraColumnsKept ==
  Normal =>
    \A col \in InputExtraColumns :
      /\ col \in out.df.columns
      /\ \A i \in RowIds : out.df.rows[i][col] = df_in.rows[i][col]

----------------------------------------------------------------------------
----------------------------------------------------------------------------
\* Row i reaches a row without parent in at most n steps along the parent
\* abbreviations.
RECURSIVE ReachesRoot(_, _)
ReachesRoot(i, n) ==
  IF ParentOf(i) = EMPTY THEN TRUE
  ELSE IF n = 0 \/ ~Resolves(i) THEN FALSE
  ELSE ReachesRoot(CHOOSE j \in RowIds : AbbrOf(j) = ParentOf(i), n - 1)

(* C19: whenever ok is true the rows form a single tree: exactly one row    *)
(* has no parent, and following the parent abbreviations from any row       *)
(* reaches that row; no row is its own ancestor.                            *)
C19_OkMeansSingleTree ==
  (Normal /\ out.summary.ok) =>
    /\ Cardinality(TopRows) = 1
    /\ \A i \in RowIds : ReachesRoot(i, NRows)

\* C20 as stated: the tally of child type ct under parent type pt counts
\* the rows of type ct whose parent resolves to a row of type pt, the empty
\* type included.
TallyOf(ct, pt) ==
  Cardinality({i \in RowIds : TypeOf(i) = ct /\ Resolves(i) /\ ActualOf(i) = pt})

ObservedFor(ct) == {pt \in TypesPresent : TallyOf(ct, pt) > 0}

(* C20: the tally of a child type counts every row of that type whose       *)
(* non-empty parent resolves to a known row, under the resolved parent's    *)
(* type whatever that value is; child_to_parent_type_unique holds c -> p    *)
(* exactly when the count of p for c is strictly greater than the count of  *)
(* every other parent type observed for c.                                  *)
C20_MappingIsStrictMode ==
  Normal =>
    \A ct, pt \in TypesPresent :
      (ct \in DOMAIN Mapping /\ Mapping[ct] = pt) <=>
        /\ TallyOf(ct, pt) > 0
        /\ \A other \in ObservedFor(ct) \ {pt} : TallyOf(ct, pt) > TallyOf(ct, other)

----------------------------------------------------------------------------
\* The first and the last row that carry abbreviation a.
FirstRow(a) ==
  CHOOSE j \in RowIds : AbbrOf(j) = a /\ \A k \in RowIds : AbbrOf(k) = a => j <= k

LastRow(a) ==
  CHOOSE j \in RowIds : AbbrOf(j) = a /\ \A k \in RowIds : AbbrOf(k) = a => k <= j

\* Parent references resolve to the type of the row Pick chooses among the
\* rows of the abbreviation: in `_Parent Type (actual)`, in the mismatch
\* check and in the tallies behind the mapping.
ResolvesBy(Pick(_)) ==
  LET PType(i) == TypeOf(Pick(ParentOf(i)))
      T(ct, p) == Cardinality({i \in RowIds : TypeOf(i) = ct /\ Resolves(i) /\ PType(i) = p})
  IN  /\ \A i \in RowIds :
           Resolves(i) =>
             /\ ActualOf(i) = PType(i)
             /\ Flag(i, "err_parent_type_mismatch") <=>
                  (TypeOf(i) \in DOMAIN Mapping /\ PType(i) # Mapping[TypeOf(i)])
      /\ \A ct \in DOMAIN Mapping :
           /\ T(ct, Mapping[ct]) > 0
           /\ \A q \in TypesPresent \ {EMPTY, Mapping[ct]} : T(ct, Mapping[ct]) > T(ct, q)

(* C21: when an abbreviation occurs on several rows with different unit     *)
(* types, every parent reference to it resolves to the type of the first    *)
(* row carrying it, in `_Parent Type (actual)`, in the tallies and in the   *)
(* mismatch check.                                                          *)
C21_FirstOccurrenceWins_Original == Normal => ResolvesBy(FirstRow)

\* C21 (amended): the same, with the type of the last row carrying the
\* abbreviation.
C21_LastOccurrenceWins == Normal => ResolvesBy(LastRow)

\* A parent reference to an abbreviation carried by two rows of different
\* types.
C21_Witness ==
  /\ Normal
  /\ \E i \in RowIds :
       /\ Resolves(i)
       /\ TypeOf(FirstRow(ParentOf(i))) # TypeOf(LastRow(ParentOf(i)))
       /\ ActualOf(i) = TypeOf(LastRow(ParentOf(i)))

----------------------------------------------------------------------------
\* The rows of type ct that were tallied, and those among them whose
\* parent has type pt.
TalliedRows(ct) == {i \in RowIds : TypeOf(i) = ct /\ Resolves(i) /\ ActualOf(i) # EMPTY}

TalliedUnder(ct, pt) == {i \in TalliedRows(ct) : ActualOf(i) = pt}

(* C22: whenever an expected parent type is recorded for a child type for   *)
(* which several parent types were observed, it is a strict majority: it    *)
(* accounts for strictly more than half of the tallied rows of the child    *)
(* type, so fewer than half of them are flagged err_parent_type_mismatch.   *)
C22_ExpectedTypeIsStrictMajority ==
  Normal =>
    \A ct \in DOMAIN Mapping :
      /\ 2 * Cardinality(TalliedUnder(ct, Mapping[ct])) > Cardinality(TalliedRows(ct))
      /\ 2 * Cardinality({i \in TalliedRows(ct) : Flag(i, "err_parent_type_mismatch")})
           < Cardinality(TalliedRows(ct))

----------------------------------------------------------------------------
\* The types that are a key or a value of the inferred mapping.
MappingTypes == DOMAIN Mapping \cup {Mapping[k] : k \in DOMAIN Mapping}

DistinctTypes == Range(out.summary.distinct_types)

(* C23: ordered_types is an ordering of all types: every distinct non-empty *)
(* unit type of the dataset (every element of distinct_types) appears in    *)
(* ordered_types, the types the chain walk does not reach being appended.   *)
C23_OrderedTypesCoversAllTypes_Original ==
  Normal => \A t \in DistinctTypes : t \in Range(out.summary.ordered_types)

\* C23 (amended): a distinct non-empty unit type appears in ordered_types if
\* and only if it is a key or a value of the inferred mapping; when there is
\* a root type the list starts with the first root in sorted order.
C23_OrderedTypesCoversMappingTypes ==
  Normal =>
    /\ \A t \in DistinctTypes :
         t \in Range(out.summary.ordered_types) <=> t \in MappingTypes
    /\ RootTypes # {} => out.summary.ordered_types[1] = Ascending(RootTypes)[1]

\* Four types: the walk from the top type reaches one child type, a second
\* child type of the same parent type is appended as leftover, and a type
\* whose only row has an unknown parent is absent.
C23_Witness ==
  /\ Normal
  /\ Cardinality(DistinctTypes) = 4
  /\ Len(out.summary.ordered_types) = 3
  /\ out.summary.top_type # None
  /\ out.summary.ordered_types[1] = out.summary.top_type
  /\ Cardinality(Colliding) = 2

----------------------------------------------------------------------------
NoRepeat(seq) == \A i, j \in DOMAIN seq : seq[i] = seq[j] => i = j

(* C24: _compute_type_chain terminates for every child -> parent type       *)
(* mapping (cycles, self-mapped types, several roots, the empty-string type *)
(* included), and the list it returns holds no type twice and holds         *)
(* exactly the types that are a key or a value of the mapping.              *)
C24_ChainTerminatesAndCovers ==
  /\ <>(pc = "chain_done")
  /\ [](pc = "chain_done" =>
          /\ NoRepeat(chain_ordered)
          /\ Range(chain_ordered) = all_types(chain_map)
          /\ chain_ordered = OrderedTypes(chain_map, hashSeed))

\* A returned list for a mapping with a root, a self-mapped type and the
\* empty-string type as a key.
C24_Witness ==
  /\ pc = "chain_done"
  /\ chain_roots(chain_map) # <<>>
  /\ \E i \in DOMAIN chain_map : chain_map[i][1] = chain_map[i][2]
  /\ \E i \in DOMAIN chain_map : chain_map[i][1] = EMPTY /\ chain_map[i][2] # EMPTY
  /\ Len(chain_ordered) = 4

----------------------------------------------------------------------------
\* The rows that name a parent.
ChildRows == {i \in RowIds : ParentOf(i) # EMPTY}

(* C25: whenever ok is true, every row with a non-empty parent has a parent *)
(* that exists in the file and whose unit type is the expected parent type  *)
(* of the row's unit type; so two rows of one unit type that have parents   *)
(* have parents of one unit type, and no two unit types share a parent      *)
(* type.                                                                    *)
C25_OkMeansParentsOfExpectedType ==
  (Normal /\ out.summary.ok) =>
    /\ \A i \in ChildRows :
         /\ TypeOf(i) \in DOMAIN Mapping
         /\ \E j \in RowIds : AbbrOf(j) = ParentOf(i) /\ TypeOf(j) = Mapping[TypeOf(i)]
         /\ \A j \in RowIds : AbbrOf(j) = ParentOf(i) => TypeOf(j) = Mapping[TypeOf(i)]
    /\ \A i, j \in ChildRows :
         \A pi, pj \in RowIds :
           (AbbrOf(pi) = ParentOf(i) /\ AbbrOf(pj) = ParentOf(j)) =>
             (TypeOf(i) = TypeOf(j) <=> TypeOf(pi) = TypeOf(pj))

\* A valid table of three types with two units of the middle type and two
\* of the lowest.
C25_Witness ==
  /\ Normal
  /\ out.summary.ok
  /\ Cardinality(TypesPresent) = 3
  /\ \E i, j, k, l \in ChildRows :
       /\ i # j /\ TypeOf(i) = TypeOf(j)
       /\ k # l /\ TypeOf(k) = TypeOf(l)
       /\ TypeOf(i) # TypeOf(k)

----------------------------------------------------------------------------
\* The err_* flag a message belongs to, by its fixed text.
FlagOfText ==
  ("Missing Title" :> "err_missing_title") @@
  ("Missing Abbreviation" :> "err_missing_abbreviation") @@
  ("Missing Academic Unit Type" :> "err_missing_academic_unit_type") @@
  ("Duplicate Abbreviation" :> "err_duplicate_abbreviation") @@
  ("Abbreviation maps to multiple parents: {}" :> "err_multi_parent_for_abbreviation") @@
  ("Parent Academic Unit not found in file" :> "err_parent_not_found") @@
  ("Multiple child types share parent type '{}' (violates single type per level)"
     :> "err_multiple_child_types_share_parent_type") @@
  ("Invalid number of top-level rows: expected 1, found {}" :> "err_top_level_count_not_one") @@
  ("No top-level row (a single root is required)" :> "err_no_top_level") @@
  ("Top-level row must be of top type '{}'" :> "err_top_row_wrong_type") @@
  ("Units of top type '{}' must not have a parent" :> "err_top_type_has_parent") @@
  ("Parent type mismatch: expected '{}', found '{}'" :> "err_parent_type_mismatch") @@
  ("Ambiguous parent type for this child type (tie among: {})"
     :> "err_ambiguous_parent_type_for_child_type")

ErrorsOf(i) == out.df.rows[i]["Errors"]

FlagsOf(i) == {c \in Range(ERR_COLS) : Flag(i, c)}

(* C26: all the problems of a row are reported: its Errors holds exactly    *)
(* one message for each err_* flag that is true on the row, no flag being   *)
(* raised twice, so Errors is empty if and only if `Row Valid` is true.     *)
C26_OneMessagePerFlag ==
  Normal =>
    \A i \in RowIds :
      /\ \A k \in DOMAIN ErrorsOf(i) : ErrorsOf(i)[k].text \in DOMAIN FlagOfText
      /\ {FlagOfText[ErrorsOf(i)[k].text] : k \in DOMAIN ErrorsOf(i)} = FlagsOf(i)
      /\ Len(ErrorsOf(i)) = Cardinality(FlagsOf(i))
      /\ ErrorsOf(i) = <<>> <=> Flag(i, "Row Valid")

\* A row with four problems at once, and their four messages.
C26_Witness ==
  /\ Normal
  /\ \E i \in RowIds : Cardinality(FlagsOf(i)) >= 4 /\ Len(ErrorsOf(i)) >= 4

----------------------------------------------------------------------------
\* The non-empty parents of the rows that share row i's abbreviation.
ParentsOfAbbr(i) == {ParentOf(j) : j \in {k \in RowIds : AbbrOf(k) = AbbrOf(i)}} \ {EMPTY}

MultiParentMsg(S) ==
  Msg("Abbreviation maps to multiple parents: {}", <<Join(Ascending(S), CommaSpace)>>)

(* C27: a row carries err_multi_parent_for_abbreviation if and only if its  *)
(* abbreviation is non-empty and the rows sharing it name more than one     *)
(* distinct non-empty parent (an empty parent is no parent); every row      *)
(* sharing the abbreviation is flagged, the message listing the non-empty   *)
(* parents in sorted order.                                                 *)
C27_MultiParentForAbbreviation ==
  Normal =>
    \A i \in RowIds :
      /\ Flag(i, "err_multi_parent_for_abbreviation") <=>
           (AbbrOf(i) # EMPTY /\ Cardinality(ParentsOfAbbr(i)) > 1)
      /\ Flag(i, "err_multi_parent_for_abbreviation") =>
           HasMsg(i, MultiParentMsg(ParentsOfAbbr(i)))

\* Three rows of one abbreviation, with no parent, parent q and parent a:
\* all three are flagged.
C27_Witness ==
  /\ Normal
  /\ NRows = 3
  /\ AbbrOf(1) = AbbrOf(2) /\ AbbrOf(2) = AbbrOf(3)
  /\ ParentOf(1) = EMPTY /\ ParentOf(2) = <<"q">> /\ ParentOf(3) = <<"a">>
  /\ \A i \in RowIds : Flag(i, "err_multi_parent_for_abbreviation")

----------------------------------------------------------------------------
(* C28: whenever ok is true, top_type is non-null, top_level_count is 1,    *)
(* the one row without parent has unit type top_type and the dataset has at *)
(* least two rows: an empty dataset and a dataset of a single parentless    *)
(* row are never ok.                                                        *)
C28_OkMeansAnchoredChain ==
  (Normal /\ out.summary.ok) =>
    /\ out.summary.top_type # None
    /\ out.summary.top_level_count = 1
    /\ Cardinality(TopRows) = 1
    /\ \A i \in TopRows : TypeOf(i) = out.summary.top_type
    /\ NRows >= 2

\* The smallest valid table: a root and one unit under it.
C28_Witness ==
  /\ Normal
  /\ out.summary.ok
  /\ NRows = 2
  /\ out.summary.top_type = TypeOf(1)
  /\ ParentOf(2) = AbbrOf(1)

----------------------------------------------------------------------------
(* C29: every row flagged err_top_type_has_parent has a defect on its       *)
(* parent link as well: it is flagged err_parent_not_found, or              *)
(* err_ambiguous_parent_type_for_child_type, or its resolved parent row has *)
(* an empty unit type.                                                      *)
C29_TopTypeWithParentHasLinkDefect ==
  Normal =>
    \A i \in RowIds :
      Flag(i, "err_top_type_has_parent") =>
        \/ Flag(i, "err_parent_not_found")
        \/ Flag(i, "err_ambiguous_parent_type_for_child_type")
        \/ (Resolves(i) /\ ActualOf(i) = EMPTY)

\* Rows of the top type with a parent: one whose parent has no type, and,
\* in another table, two whose parents' types tie.
C29_Witness ==
  /\ Normal
  /\ \E i \in RowIds :
       /\ Flag(i, "err_top_type_has_parent")
       /\ ~Flag(i, "err_parent_not_found")
       /\ \/ Flag(i, "err_ambiguous_parent_type_for_child_type")
          \/ (Resolves(i) /\ ActualOf(i) = EMPTY)

----------------------------------------------------------------------------
(* C30: for a dataset whose non-empty abbreviations are all unique, the     *)
(* result does not depend on the row order: after any permutation of the    *)
(* input rows every row keeps its err_* flags, `_Parent Exists`,            *)
(* `_Parent Type (actual)`, `_Expected Parent Type` and `Row Valid`, and    *)
(* ok, top_type, top_level_count, child_to_parent_type_unique (as a         *)
(* mapping) and the emptiness of chain_errors are the same.                 *)

UniqueAbbreviations ==
  \A i, j \in RowIds : (i # j /\ AbbrOf(i) = AbbrOf(j)) => AbbrOf(i) = EMPTY

\* Row k of the permuted table is row pi[k] of df.
PermuteRows(df, pi) == [df EXCEPT !.rows = [k \in 1..Len(df.rows) |-> df.rows[pi[k]]]]

RowDiagnostics == Range(ERR_COLS) \cup DIAG_COLS \cup {"Row Valid"}

SameUpToRowOrder(res, pi) ==
  /\ Len(res.df.rows) = NRows
  /\ \A k \in RowIds : \A c \in RowDiagnostics :
       res.df.rows[k][c] = out.df.rows[pi[k]][c]
  /\ res.summary.ok = out.summary.ok
  /\ res.summary.top_type = out.summary.top_type
  /\ res.summary.top_level_count = out.summary.top_level_count
  /\ DictAsFunction(res.summary.child_to_parent_type_unique) = Mapping
  /\ (res.summary.chain_errors = <<>>) <=> (out.summary.chain_errors = <<>>)

C30_RowOrderIndependent ==
  (Normal /\ UniqueAbbreviations) =>
    \A pi \in Perms(RowIds) :
      SameUpToRowOrder(validate_hierarchy(PermuteRows(df_in, pi), hashSeed), pi)

\* A table of unique abbreviations with a flagged and a valid row, and a
\* row order under which the mapping is filled in another order.
C30_Witness ==
  /\ Normal
  /\ UniqueAbbreviations
  /\ \E i \in RowIds : AnyFlag(i)
  /\ \E i \in RowIds : ~AnyFlag(i)
  /\ \E pi \in Perms(RowIds) :
       validate_hierarchy(PermuteRows(df_in, pi), hashSeed).summary.child_to_parent_type_unique
         # out.summary.child_to_parent_type_unique

====
